---- MODULE Spec2Model ----
(***************************************************************************)
(* The storage engine of immudb (package store, type Store):               *)
(* Set, SetBatch, Reference and ZAdd write rows to the backing KV          *)
(* (badger, managed timestamps) and leaves to the tree store; Get,         *)
(* ByIndex (itemAt), History and CurrentRoot read them.                    *)
(*                                                                         *)
(* A write is three steps, because the tree lock is released between them  *)
(* and other goroutines run: the handler up to the hand-off of the         *)
(* transaction (validation, staging, tree.NewEntry / NewBatch), the        *)
(* backing store's commit (txn.CommitAt), and the completion callback cb   *)
(* (tree.Commit or tree.Discard).                                          *)
(*                                                                         *)
(* Byte strings are sequences of numbers.  api.Digest is a collision-free  *)
(* hash: the tuple of its arguments.                                       *)
(*                                                                         *)
(* Close waits for the wait-group and then closes the tree and the         *)
(* backing KV; FlushToDisk waits for it, then takes the write lock of the  *)
(* tree and flushes.  Dump streams the rows of the backing KV as KVLists into a  *)
(* channel and Restore loads them into a fresh Store; each is a sequence   *)
(* of steps, one per send, receive or close of the channel.                *)
(***************************************************************************)
EXTENDS Integers, Sequences, FiniteSets, TLC

(* ---------------------------------------------------------------- bounds *)

\* the highest timestamp the tree hands out
MaxTs == 3
\* how many writes reserve tree positions in one behaviour
MaxWrites == 3
\* the longest list given to SetBatch
MaxBatch == 2
\* how many writes are in flight at once
MaxInflight == 2
\* how many KVLists the channel between Dump and Restore holds
ChanCap == 1

(* ------------------------------------------------------------- constants *)

\* first byte of every tree node key
tsPrefix == 0
\* user-meta bit of a reference row
bitReferenceEntry == 1
\* separator byte of a sorted-set member key
setSeparator == 9

(* ----------------------------------------------------------- input sets  *)

K1 == <<1>>
K2 == <<2>>
V1 == <<7>>
V2 == <<8>>
S1 == <<5>>
EmptyBytes == <<>>
\* the value written over a row behind the engine's back
Forged == <<6>>
TsKey == <<tsPrefix, 1>>

GoodKeys == {K1, K2}
BadKeys == {EmptyBytes, TsKey}
AnyKeys == GoodKeys \cup BadKeys
Values == {V1, V2}
SetNames == {S1, EmptyBytes}
Scores == {1}

\* the entries SetBatch lists are made of
KVs == {[key |-> K1, value |-> V1], [key |-> K2, value |-> V2],
        [key |-> EmptyBytes, value |-> V1], [key |-> TsKey, value |-> V1]}

RECURSIVE ListsOfLen(_)
ListsOfLen(n) ==
  IF n = 0 THEN {<<>>}
  ELSE {Append(l, e) : l \in ListsOfLen(n - 1), e \in KVs}

\* the lists SetBatch is called with, the empty one included
BatchLists == UNION {ListsOfLen(n) : n \in 0..MaxBatch}

(* -------------------------------------------------------------- helpers  *)

Min(a, b) == IF a < b THEN a ELSE b
Max(a, b) == IF a > b THEN a ELSE b

NoItem == [key |-> EmptyBytes, version |-> 0, value |-> EmptyBytes, meta |-> 0]

\* api.Digest(index, key, value): the leaf hash
Digest(index, key, value) == <<index, key, value>>

\* refTreeKey(hash, key): the value of a layer-0 tree node
refTreeKey(hash, key) == [h |-> hash, key |-> key]

\* checkKey: empty keys and keys that begin with tsPrefix are rejected
checkKey(key) ==
  IF Len(key) = 0 \/ key[1] = tsPrefix THEN "ErrInvalidKey" ELSE "nil"

\* checkSet: the same rule for the name of a sorted set
checkSet(set) ==
  IF Len(set) = 0 \/ set[1] = tsPrefix THEN "ErrInvalidSet" ELSE "nil"

\* SetKey(key, set, score): set name, separator, score, referent key
SetKey(key, set, score) == set \o <<setSeparator, score>> \o key

\* itemToSchema(key, item): index is the row's version minus one
itemToSchema(key, item) ==
  [key |-> key, value |-> item.value, index |-> item.version - 1]

(* ------------------------------------------------------- backing KV (db) *)

\* all versions of a key
Versions(d, key) == {r \in d : r.key = key}

\* txn.Get at MaxUint64: the newest version of the key, or NoItem
TxnGet(d, key) ==
  IF Versions(d, key) = {} THEN NoItem
  ELSE CHOOSE r \in Versions(d, key) :
         \A s \in Versions(d, key) : s.version <= r.version

RECURSIVE NewestFirst(_)
NewestFirst(rows) ==
  IF rows = {} THEN <<>>
  ELSE LET r == CHOOSE x \in rows : \A y \in rows : y.version <= x.version
       IN <<r>> \o NewestFirst(rows \ {r})

\* txn.NewKeyIterator(key) at MaxInt64: every version, newest first
KeyIterator(d, key) == NewestFirst(Versions(d, key))

\* txn.SetEntry on one transaction: a later entry of a key replaces the earlier
RECURSIVE Stage(_, _)
Stage(list, meta) ==
  IF list = <<>> THEN {}
  ELSE LET e == list[Len(list)]
           before == Stage(SubSeq(list, 1, Len(list) - 1), meta)
       IN {s \in before : s.key # e.key}
            \cup {[key |-> e.key, value |-> e.value, meta |-> meta]}

\* the timestamp a transaction is committed at: the last handle's ts
CommitTs(hs) == hs[Len(hs)]

\* txn.CommitAt(ts): every staged entry becomes the row of its key at
\* version ts
CommitAt(d, staged, ts) ==
  {r \in d : ~(\E s \in staged : s.key = r.key /\ r.version = ts)}
    \cup {[key |-> s.key, version |-> ts, value |-> s.value, meta |-> s.meta]
            : s \in staged}

(* ------------------------------------------------------------ tree store *)
(* tree.w is the next timestamp handed out, tree.ts the highest committed  *)
(* timestamp (the width), tree.rcache the layer-0 cache: position i holds  *)
(* refTreeKey(hash, key) of the leaf reserved for index i.                 *)

EmptyTree == [w |-> 1, ts |-> 0, rcache |-> <<>>]

\* NewEntry(key, value): ts <- w; w <- w + 1; the leaf goes into the cache
NewEntry(t, key, value) ==
  [t EXCEPT !.w = @ + 1,
            !.rcache = Append(@, refTreeKey(Digest(t.w - 1, key, value), key))]

\* NewBatch(list): NewEntry for every entry, in list order
RECURSIVE NewBatch(_, _)
NewBatch(t, list) ==
  IF list = <<>> THEN t
  ELSE NewBatch(NewEntry(t, list[1].key, list[1].value), Tail(list))

\* the handles (timestamps) a reservation of n leaves returns
Handles(t, n) == [i \in 1..n |-> t.w + i - 1]

\* Width(): the number of committed leaves
Width(t) == t.ts

\* Commit(handle): the width becomes handle.ts
Commit(t, h) == [t EXCEPT !.ts = h]

\* Discard(handle): every uncommitted position at or above the handle is
\* rolled back
Discard(t, h) ==
  LET nw == Min(t.w, Max(h, t.ts + 1))
  IN [t EXCEPT !.w = nw, !.rcache = SubSeq(@, 1, nw - 1)]

RECURSIVE CommitAll(_, _)
CommitAll(t, hs) ==
  IF hs = <<>> THEN t ELSE CommitAll(Commit(t, hs[1]), Tail(hs))

RECURSIVE DiscardAll(_, _)
DiscardAll(t, hs) ==
  IF hs = <<>> THEN t ELSE DiscardAll(Discard(t, hs[1]), Tail(hs))

(* ------------------------------------------------------------ read path  *)

\* the hash of the zero value of schema.Root, and of a node that is not there
ZeroHash == <<>>

\* the largest power of two below n (n > 1)
RECURSIVE SplitPoint(_, _)
SplitPoint(n, k) == IF 2 * k < n THEN SplitPoint(n, 2 * k) ELSE k

\* the Merkle combiner over a sequence of leaf hashes: a node is the pair
\* of its two subtrees
RECURSIVE MTH(_)
MTH(hs) ==
  IF Len(hs) = 0 THEN ZeroHash
  ELSE IF Len(hs) = 1 THEN hs[1]
  ELSE LET k == SplitPoint(Len(hs), 1)
       IN <<MTH(SubSeq(hs, 1, k)), MTH(SubSeq(hs, k + 1, Len(hs)))>>

\* treeKey(layer, index): the key of a tree node row
treeKey(layer, index) == <<tsPrefix, layer, index>>

\* a leaf reference as the bytes of a tree node row, and back
encodeRefTreeKey(ref) == <<ref.h, ref.key>>
decodeRefTreeKey(bytes) == [h |-> bytes[1], key |-> bytes[2]]

\* the leaf reference of index: from the cache, else from the tree node row
\* of the backing KV, else none
NoRef == [h |-> ZeroHash, key |-> EmptyBytes]
LeafRef(d, t, index) ==
  IF index + 1 <= Len(t.rcache) THEN t.rcache[index + 1]
  ELSE IF Versions(d, treeKey(0, index)) # {}
       THEN decodeRefTreeKey(TxnGet(d, treeKey(0, index)).value)
       ELSE NoRef

\* the hash of the leaf at position i (1-based) of the tree
LeafHash(d, t, i) == LeafRef(d, t, i - 1).h

\* merkletree.Root(tree): the root over the leaves 0 .. width - 1
Root(d, t) == MTH([i \in 1..Width(t) |-> LeafHash(d, t, i)])

\* Store.CurrentRoot: index width - 1 and the root hash when the tree is
\* not empty, else the zero value
CurrentRoot(d, t) ==
  IF Width(t) > 0
  THEN [index |-> Width(t) - 1, empty |-> FALSE, hash |-> Root(d, t)]
  ELSE [index |-> 0, empty |-> TRUE, hash |-> ZeroHash]

\* flush(): the leaf references of the committed leaves are written to the
\* backing KV under their tree node keys
flush(d, t) ==
  d \cup {[key |-> treeKey(0, i - 1), version |-> i,
            value |-> encodeRefTreeKey(t.rcache[i]), meta |-> 0]
             : i \in 1..Min(t.ts, Len(t.rcache))}

\* the rows of the backing KV that are layer-0 tree nodes
LeafRows(d) == {r \in d : Len(r.key) = 3 /\ r.key[1] = tsPrefix /\ r.key[2] = 0}

\* loadTreeState(): width and next timestamp are recovered from the tree
\* node rows; the caches are empty
loadTreeState(d) ==
  [w |-> Cardinality(LeafRows(d)) + 1, ts |-> Cardinality(LeafRows(d)),
   rcache |-> <<>>]

Result(err, item) ==
  [err |-> err, key |-> item.key, value |-> item.value, index |-> item.index]

NoResult(err) ==
  [err |-> err, key |-> EmptyBytes, value |-> EmptyBytes, index |-> 0]

\* Store.Get: the newest row of the key; a reference row is resolved by one
\* more lookup, and returned itself when that lookup fails
Get(d, key) ==
  IF checkKey(key) # "nil" THEN NoResult(checkKey(key))
  ELSE LET i == TxnGet(d, key)
       IN IF i = NoItem THEN NoResult("ErrKeyNotFound")
          ELSE IF i.meta = bitReferenceEntry /\ TxnGet(d, i.value) # NoItem
               THEN Result("nil", itemToSchema(i.value, TxnGet(d, i.value)))
               ELSE Result("nil", itemToSchema(key, i))

\* faulty variant of PickVersion: the newest version, whatever its index
PickVersion_newest(items, index) == items[1]

\* the loop of itemAt over the versions of the key: it stops at the version
\* whose index is the one asked for, and otherwise ends on the last one
PickVersion(items, index) ==
  IF \E n \in 1..Len(items) : items[n].version - 1 = index
  THEN items[CHOOSE n \in 1..Len(items) :
               /\ items[n].version - 1 = index
               /\ \A m \in 1..(n - 1) : items[m].version - 1 # index]
  ELSE items[Len(items)]

\* faulty variant of itemAt: the digest is not compared
itemAt_unchecked(d, t, readTs) ==
  LET index == readTs - 1
  IN IF LeafRef(d, t, index) = NoRef THEN NoResult("ErrIndexNotFound")
     ELSE LET ref == LeafRef(d, t, index)
              items == KeyIterator(d, ref.key)
          IN IF items = <<>> THEN NoResult("panic")
             ELSE Result("nil",
                         [itemToSchema(ref.key, PickVersion(items, index))
                            EXCEPT !.index = index])

\* Store.itemAt(readTs): the leaf reference of index readTs - 1 from the
\* cache or else from disk (ErrIndexNotFound when it is in neither), then
\* the row of its key with that index, then the digest check.
\* With no version of the key at all the loop leaves item nil and line 381
\* dereferences it.
itemAt(d, t, readTs) ==
  LET index == readTs - 1
  IN IF LeafRef(d, t, index) = NoRef THEN NoResult("ErrIndexNotFound")
     ELSE LET ref == LeafRef(d, t, index)
              items == KeyIterator(d, ref.key)
          IN IF items = <<>> THEN NoResult("panic")
             ELSE LET item == itemToSchema(ref.key, PickVersion(items, index))
                  IN IF ref.h # Digest(item.index, ref.key, item.value)
                     THEN NoResult("ErrInconsistentDigest")
                     ELSE Result("nil", [item EXCEPT !.index = index])

\* Store.ByIndex(index) is itemAt(index + 1)
ByIndex(d, t, index) == itemAt(d, t, index + 1)

\* Store.History: every version of the key, newest first
History(d, key) ==
  IF Len(key) = 0 \/ key[1] = tsPrefix THEN [err |-> "ErrInvalidKey", items |-> <<>>]
  ELSE [err |-> "nil",
        items |-> [n \in 1..Len(KeyIterator(d, key)) |->
                     itemToSchema(key, KeyIterator(d, key)[n])]]

\* s begins with prefix
HasPrefix(s, prefix) ==
  Len(s) >= Len(prefix) /\ SubSeq(s, 1, Len(prefix)) = prefix

\* Store.Count(prefix): the keys under the prefix, each counted once
Count(d, prefix) ==
  IF Len(prefix) = 0 \/ prefix[1] = tsPrefix
  THEN [err |-> "ErrInvalidKeyPrefix", count |-> 0]
  ELSE [err |-> "nil",
        count |-> Cardinality({r.key : r \in {x \in d : HasPrefix(x.key, prefix)}})]

(* ----------------------------------------------------------------- state *)

VARIABLES
  db,        \* the backing KV: the committed user rows, every version
  tree,      \* the tree store
  inflight,  \* the writes handed to the backing store, cb not yet run
  wg,        \* Store.wg, the counter of the wait-group
  nwrites,   \* how many writes have reserved tree positions so far
  last,      \* what the call that returned in the last step returned
  log,       \* the writes whose commit succeeded, in the order cb ran
  owner,     \* for every reserved position, the write that reserved it
  closer,    \* the caller of Close: where it is, and the wg it found
  kvChan,    \* the channel between Dump and Restore
  dump,      \* the caller of Dump: where it is, the stream, its error
  restore,   \* the caller of Restore: where it is, the loader, its results
  dst,       \* the fresh Store Restore loads: its backing KV and its tree
  flusher,   \* the caller of FlushToDisk: where it is, and the wg it found
  treeLock   \* who holds the write lock of the tree across steps

vars == <<db, tree, inflight, wg, nwrites, last, log, owner,
          closer, kvChan, dump, restore, dst, flusher, treeLock>>

\* what the write path leaves alone
pipe == <<kvChan, dump, restore, dst, flusher, treeLock>>

Returned(op, key, err, idx) == [op |-> op, key |-> key, err |-> err, idx |-> idx]

\* no call returned in the last step
NoReturn == Returned("none", EmptyBytes, "nil", 0)

Init ==
  /\ db = {}
  /\ tree = EmptyTree
  /\ inflight = {}
  /\ wg = 0
  /\ nwrites = 0
  /\ last = NoReturn
  /\ log = <<>>
  /\ owner = <<>>
  /\ closer = [pc |-> "open", seen |-> 0]
  /\ kvChan = [buf |-> <<>>, closes |-> <<>>, fault |-> "none"]
  /\ dump = [pc |-> "idle", lists |-> <<>>, next |-> 1, err |-> "nil"]
  /\ restore = [pc |-> "idle", ldr |-> {}, finished |-> 0, err |-> "nil",
                ret |-> 0]
  /\ dst = [db |-> {}, tree |-> EmptyTree]
  /\ flusher = [pc |-> "idle", seen |-> 0]
  /\ treeLock = "free"

\* a name for a write in flight: the least number no write in flight has
FreeId == CHOOSE n \in 1..(MaxInflight + 1) :
            /\ \A wr \in inflight : wr.id # n
            /\ \A m \in 1..(n - 1) : \E wr \in inflight : wr.id = m

(* ------------------------------------------------------------ write path *)

\* a call that returns before it touches the transaction or the tree
Reject(op, key, err) ==
  /\ last' = Returned(op, key, err, 0)
  /\ UNCHANGED <<db, tree, inflight, wg, nwrites, log, owner, closer, pipe>>

\* faulty variant of IndexOf: the index of the first handle
IndexOf_first(hs) == hs[1] - 1

\* the index a write returns: the last handle's ts minus one
IndexOf(hs) == hs[Len(hs)] - 1

\* the common tail of Set, SetBatch, Reference and ZAdd: the tree positions
\* are reserved (NewEntry and NewBatch take the write lock of the tree), the index is computed, and the transaction is handed to
\* the backing store, with wg.Add(1) and cb when the commit is asynchronous.
\* An asynchronous call returns here; a synchronous one when cb has run.
Submit(op, key, list, meta, async) ==
  LET hs == Handles(tree, Len(list))
  IN /\ nwrites < MaxWrites
     /\ Cardinality(inflight) < MaxInflight
     /\ treeLock = "free"
     /\ tree.w + Len(list) - 1 <= MaxTs
     /\ tree' = NewBatch(tree, list)
     /\ owner' = owner \o [i \in 1..Len(list) |-> [id |-> FreeId, st |-> "pending"]]
     /\ inflight' = inflight \cup
          {[id |-> FreeId, op |-> op, key |-> key, list |-> list, hs |-> hs,
            staged |-> Stage(list, meta), async |-> async, st |-> "pending",
            idx |-> IndexOf(hs), early |-> closer.pc = "open"]}
     /\ nwrites' = nwrites + 1
     /\ wg' = IF async THEN wg + 1 ELSE wg
     /\ last' = IF async THEN Returned(op, key, "nil", IndexOf(hs)) ELSE NoReturn
     /\ UNCHANGED <<db, log, closer, pipe>>

\* Store.Set
Set(key, value, async) ==
  IF checkKey(key) # "nil" THEN Reject("Set", key, checkKey(key))
  ELSE Submit("Set", key, <<[key |-> key, value |-> value]>>, 0, async)

\* faulty variant of SetBatch: the keys of the list are not checked
SetBatch_unchecked(list, async) ==
  IF Len(list) = 0 THEN Reject("SetBatch", EmptyBytes, "ErrEmptySet")
  ELSE Submit("SetBatch", EmptyBytes, list, 0, async)

\* Store.SetBatch
SetBatch(list, async) ==
  IF Len(list) = 0 THEN Reject("SetBatch", EmptyBytes, "ErrEmptySet")
  ELSE IF \E n \in 1..Len(list) : checkKey(list[n].key) # "nil"
       THEN Reject("SetBatch", EmptyBytes, "ErrInvalidKey")
       ELSE Submit("SetBatch", EmptyBytes, list, 0, async)

\* faulty variant of Reference: the result of the lookup is not checked
Reference_unchecked(key, reference, async) ==
  IF Len(key) = 0 \/ key[1] = tsPrefix
  THEN Reject("Reference", key, "ErrInvalidKey")
  ELSE IF Len(reference) = 0 \/ reference[1] = tsPrefix
       THEN Reject("Reference", key, "ErrInvalidReference")
       ELSE Submit("Reference", key, <<[key |-> reference, value |-> key]>>,
                   bitReferenceEntry, async)

\* Store.Reference
Reference(key, reference, async) ==
  IF Len(key) = 0 \/ key[1] = tsPrefix
  THEN Reject("Reference", key, "ErrInvalidKey")
  ELSE IF Len(reference) = 0 \/ reference[1] = tsPrefix
       THEN Reject("Reference", key, "ErrInvalidReference")
       ELSE IF TxnGet(db, key) = NoItem
            THEN Reject("Reference", key, "ErrKeyNotFound")
            ELSE Submit("Reference", key,
                        <<[key |-> reference, value |-> TxnGet(db, key).key]>>,
                        bitReferenceEntry, async)

\* Store.ZAdd
ZAdd(key, set, score, async) ==
  IF checkKey(key) # "nil" THEN Reject("ZAdd", key, checkKey(key))
  ELSE IF checkSet(set) # "nil" THEN Reject("ZAdd", key, checkSet(set))
       ELSE IF TxnGet(db, key) = NoItem
            THEN Reject("ZAdd", key, "ErrKeyNotFound")
            ELSE Submit("ZAdd", key,
                        <<[key |-> SetKey(key, set, score),
                           value |-> TxnGet(db, key).key]>>,
                        bitReferenceEntry, async)

\* the write wr leaves owner: st is what became of its commit
Mark(own, id, st) ==
  [i \in 1..Len(own) |->
     IF own[i].id = id THEN [id |-> IF st = "pending" THEN id ELSE own[i].id,
                             st |-> st]
     ELSE own[i]]

\* txn.CommitAt in the backing store: the staged rows are committed at the
\* last handle's timestamp, or the commit fails and nothing is written
TxnCommit(wr, ok) ==
  /\ wr \in inflight
  /\ wr.st = "pending"
  /\ db' = IF ok THEN CommitAt(db, wr.staged, CommitTs(wr.hs)) ELSE db
  /\ inflight' = (inflight \ {wr})
       \cup {[wr EXCEPT !.st = IF ok THEN "ok" ELSE "fail"]}
  /\ owner' = Mark(owner, wr.id, IF ok THEN "ok" ELSE "fail")
  /\ last' = NoReturn
  /\ UNCHANGED <<tree, wg, nwrites, log, closer, pipe>>

\* the positions of a write whose cb has run carry no name any more
Release(own, id) ==
  [i \in 1..Len(own) |->
     IF own[i].id = id THEN [own[i] EXCEPT !.id = 0] ELSE own[i]]

\* cb(err): tree.Commit for every handle when the commit succeeded, else
\* tree.Discard for every handle (both take the write lock of the tree); wg.Done() when the commit is asynchronous.
\* A synchronous call returns index and err after it.
Callback(wr) ==
  /\ wr \in inflight
  /\ wr.st \in {"ok", "fail"}
  /\ treeLock = "free"
  /\ tree' = IF wr.st = "ok" THEN CommitAll(tree, wr.hs)
             ELSE DiscardAll(tree, wr.hs)
  /\ owner' = Release(SubSeq(owner, 1, Len(tree'.rcache)), wr.id)
  /\ wg' = IF wr.async THEN wg - 1 ELSE wg
  /\ inflight' = inflight \ {wr}
  /\ last' = IF wr.async THEN NoReturn
             ELSE Returned(wr.op, wr.key,
                           IF wr.st = "ok" THEN "nil" ELSE "ErrBackingStore",
                           wr.idx)
  /\ log' = IF wr.st = "ok"
            THEN Append(log, [op |-> wr.op, key |-> wr.key, list |-> wr.list,
                              idx |-> wr.idx])
            ELSE log
  /\ UNCHANGED <<db, nwrites, closer, pipe>>

(* ------------------------------------------------------------------ Close *)

\* Store.Close, up to t.wg.Wait(): the caller blocks on the wait-group
CloseCall ==
  /\ closer.pc = "open"
  /\ closer' = [pc |-> "waiting", seen |-> wg]
  /\ last' = NoReturn
  /\ UNCHANGED <<db, tree, inflight, wg, nwrites, log, owner, pipe>>

\* faulty variant of CloseReturn: the wait-group is not waited for
CloseReturn_nowait ==
  /\ closer.pc = "waiting"
  /\ closer' = [closer EXCEPT !.pc = "closed"]
  /\ db' = flush(db, tree)
  /\ last' = Returned("Close", EmptyBytes, "nil", 0)
  /\ UNCHANGED <<tree, inflight, wg, nwrites, log, owner, pipe>>

\* Store.Close, from the return of t.wg.Wait(): the counter is zero;
\* t.tree.Close() flushes the tree, t.db.Close() closes the backing KV
CloseReturn ==
  /\ closer.pc = "waiting"
  /\ wg = 0
  /\ closer' = [closer EXCEPT !.pc = "closed"]
  /\ db' = flush(db, tree)
  /\ last' = Returned("Close", EmptyBytes, "nil", 0)
  /\ UNCHANGED <<tree, inflight, wg, nwrites, log, owner, pipe>>

(* ------------------------------------------------------------ FlushToDisk *)

\* faulty variant of FlushCall: the lock is taken before the wait
FlushCall_locked ==
  /\ flusher.pc = "idle"
  /\ treeLock = "free"
  /\ treeLock' = "FlushToDisk"
  /\ flusher' = [pc |-> "waiting", seen |-> wg]
  /\ last' = NoReturn
  /\ UNCHANGED <<db, tree, inflight, wg, nwrites, log, owner, closer,
                 kvChan, dump, restore, dst>>

\* Store.FlushToDisk, up to t.wg.Wait(): the caller blocks on the
\* wait-group and holds no lock
FlushCall ==
  /\ flusher.pc = "idle"
  /\ flusher' = [pc |-> "waiting", seen |-> wg]
  /\ last' = NoReturn
  /\ UNCHANGED <<db, tree, inflight, wg, nwrites, log, owner, closer,
                 kvChan, dump, restore, dst, treeLock>>

\* t.wg.Wait() returns: the counter is zero; the caller goes on to
\* t.tree.Lock()
FlushWait ==
  /\ flusher.pc = "waiting"
  /\ wg = 0
  /\ flusher' = [flusher EXCEPT !.pc = "locking"]
  /\ last' = NoReturn
  /\ UNCHANGED <<db, tree, inflight, wg, nwrites, log, owner, closer,
                 kvChan, dump, restore, dst, treeLock>>

\* t.tree.Lock() is granted
FlushLock ==
  /\ flusher.pc = "locking"
  /\ treeLock = "free"
  /\ treeLock' = "FlushToDisk"
  /\ flusher' = [flusher EXCEPT !.pc = "flushing"]
  /\ last' = NoReturn
  /\ UNCHANGED <<db, tree, inflight, wg, nwrites, log, owner, closer,
                 kvChan, dump, restore, dst>>

\* t.tree.flush(), then the deferred t.tree.Unlock() and the return
FlushReturn ==
  /\ flusher.pc = "flushing"
  /\ db' = flush(db, tree)
  /\ treeLock' = "free"
  /\ flusher' = [flusher EXCEPT !.pc = "returned"]
  /\ last' = Returned("FlushToDisk", EmptyBytes, "nil", 0)
  /\ UNCHANGED <<tree, inflight, wg, nwrites, log, owner, closer,
                 kvChan, dump, restore, dst>>

(* ----------------------------------------------------------- Dump, Restore *)

\* the KVLists a stream over the rows may send: all rows in one list, or the
\* tree node rows and the user rows in a list each, in either order
StreamLists(rows) ==
  {<<rows>>} \cup
    (IF LeafRows(rows) # {} /\ rows \ LeafRows(rows) # {}
     THEN {<<LeafRows(rows), rows \ LeafRows(rows)>>,
           <<rows \ LeafRows(rows), LeafRows(rows)>>}
     ELSE {})

\* Store.Dump up to the start of the stream: the tree is flushed; with all
\* caches empty the stream is skipped
DumpStart ==
  /\ dump.pc = "idle"
  /\ inflight = {}
  /\ db' = flush(db, tree)
  /\ IF Len(tree.rcache) = 0
     THEN dump' = [dump EXCEPT !.pc = "closing"]
     ELSE \E ls \in StreamLists(db') :
            dump' = [dump EXCEPT !.pc = "streaming", !.lists = ls]
  /\ last' = NoReturn
  /\ UNCHANGED <<tree, inflight, wg, nwrites, log, owner, closer, flusher,
                 treeLock,
                 kvChan, restore, dst>>

\* stream.Send: kvChan <- list; a send on a closed channel panics
DumpSend ==
  /\ dump.pc = "streaming"
  /\ dump.next <= Len(dump.lists)
  /\ IF kvChan.closes # <<>>
     THEN /\ kvChan' = [kvChan EXCEPT !.fault = "send on closed channel"]
          /\ dump' = [dump EXCEPT !.pc = "panic"]
     ELSE /\ Len(kvChan.buf) < ChanCap
          /\ kvChan' = [kvChan EXCEPT !.buf = Append(@, dump.lists[dump.next])]
          /\ dump' = [dump EXCEPT !.next = @ + 1]
  /\ last' = NoReturn
  /\ UNCHANGED <<db, tree, inflight, wg, nwrites, log, owner, closer, flusher,
                 treeLock,
                 restore, dst>>

\* stream.Orchestrate returns an error: Dump returns it
DumpStreamError ==
  /\ dump.pc = "streaming"
  /\ dump' = [dump EXCEPT !.pc = "returned", !.err = "ErrBackingStore"]
  /\ last' = Returned("Dump", EmptyBytes, "ErrBackingStore", 0)
  /\ UNCHANGED <<db, tree, inflight, wg, nwrites, log, owner, closer, flusher,
                 treeLock,
                 kvChan, restore, dst>>

\* close(kvChan) at the end of Dump, and its return; closing a closed
\* channel panics
DumpClose ==
  /\ \/ dump.pc = "closing"
     \/ dump.pc = "streaming" /\ dump.next > Len(dump.lists)
  /\ IF kvChan.closes # <<>>
     THEN /\ kvChan' = [kvChan EXCEPT !.fault = "close of closed channel"]
          /\ dump' = [dump EXCEPT !.pc = "panic"]
          /\ last' = NoReturn
     ELSE /\ kvChan' = [kvChan EXCEPT !.closes = <<"Dump">>]
          /\ dump' = [dump EXCEPT !.pc = "returned"]
          /\ last' = Returned("Dump", EmptyBytes, "nil", 0)
  /\ UNCHANGED <<db, tree, inflight, wg, nwrites, log, owner, closer, flusher,
                 treeLock,
                 restore, dst>>

\* Store.Restore on the fresh Store, up to its first receive
RestoreStart ==
  /\ restore.pc = "idle"
  /\ dump.pc # "idle"
  /\ restore' = [restore EXCEPT !.pc = "receiving"]
  /\ last' = NoReturn
  /\ UNCHANGED <<db, tree, inflight, wg, nwrites, log, owner, closer, flusher,
                 treeLock,
                 kvChan, dump, dst>>

\* kvList, more := <-kvChan with more = true: every entry goes to the
\* loader (ldr.Set may fail: return), then ldr.Finish (it may fail:
\* close(kvChan), return), then loadTreeState and the return of tree.ts
RestoreRecv(outcome) ==
  /\ restore.pc = "receiving"
  /\ kvChan.buf # <<>>
  /\ \/ /\ outcome = "ErrSet"
        /\ kvChan' = [kvChan EXCEPT !.buf = Tail(@)]
        /\ restore' = [restore EXCEPT !.pc = "returned",
                                      !.err = "ErrBackingStore"]
        /\ dst' = dst
     \/ /\ outcome = "ErrFinish"
        /\ IF kvChan.closes # <<>>
           THEN /\ kvChan' = [kvChan EXCEPT !.buf = Tail(@),
                                            !.fault = "close of closed channel"]
                /\ restore' = [restore EXCEPT !.pc = "panic",
                                              !.finished = @ + 1]
           ELSE /\ kvChan' = [kvChan EXCEPT !.buf = Tail(@),
                                            !.closes = <<"Restore">>]
                /\ restore' = [restore EXCEPT !.pc = "returned",
                                              !.finished = @ + 1,
                                              !.err = "ErrBackingStore"]
        /\ dst' = dst
     \/ /\ outcome = "nil"
        /\ kvChan' = [kvChan EXCEPT !.buf = Tail(@)]
        /\ dst' = [db |-> dst.db \cup Head(kvChan.buf),
                   tree |-> loadTreeState(dst.db \cup Head(kvChan.buf))]
        /\ restore' = [restore EXCEPT !.pc = "returned",
                                      !.ldr = Head(kvChan.buf),
                                      !.finished = @ + 1,
                                      !.ret = dst'.tree.ts]
  /\ last' = IF restore'.pc = "returned"
             THEN Returned("Restore", EmptyBytes, restore'.err, restore'.ret)
             ELSE NoReturn
  /\ UNCHANGED <<db, tree, inflight, wg, nwrites, log, owner, closer, dump,
                 flusher, treeLock>>

DoRestoreRecv == \E outcome \in {"nil", "ErrSet", "ErrFinish"} : RestoreRecv(outcome)

\* kvList, more := <-kvChan with more = false (the channel is closed and
\* empty): ldr.Finish, then close(kvChan) of the channel that is closed
RestoreRecvClosed ==
  /\ restore.pc = "receiving"
  /\ kvChan.buf = <<>>
  /\ kvChan.closes # <<>>
  /\ kvChan' = [kvChan EXCEPT !.fault = "close of closed channel"]
  /\ restore' = [restore EXCEPT !.pc = "panic", !.finished = @ + 1]
  /\ last' = NoReturn
  /\ UNCHANGED <<db, tree, inflight, wg, nwrites, log, owner, closer, flusher,
                 treeLock,
                 dump, dst>>

(* --------------------------------------------------------- specifications *)

\* the lists of valid entries
GoodLists == {l \in BatchLists :
                /\ Len(l) > 0
                /\ \A n \in 1..Len(l) : l[n].key \in GoodKeys}

DoSet == \E k \in GoodKeys, a \in BOOLEAN : Set(k, V1, a)
DoSetBatch == \E l \in GoodLists, a \in BOOLEAN : SetBatch(l, a)
DoReference == \E a \in BOOLEAN : Reference(K1, K2, a)
DoZAdd == \E a \in BOOLEAN : ZAdd(K1, S1, 1, a)
DoTxnCommit == \E wr \in inflight, ok \in BOOLEAN : TxnCommit(wr, ok)
DoCallback == \E wr \in inflight : Callback(wr)

\* concurrent callers, synchronous and asynchronous commit, valid arguments
Next ==
  \/ DoSet
  \/ DoSetBatch
  \/ DoReference
  \/ DoZAdd
  \/ DoTxnCommit
  \/ DoCallback

Spec == Init /\ [][Next]_vars

\* one caller, synchronous commit (the default), any arguments: a call
\* starts when the one before it has returned
SeqSet == inflight = {} /\ \E k \in AnyKeys, v \in Values : Set(k, v, FALSE)
SeqSetBatch == inflight = {} /\ \E l \in BatchLists : SetBatch(l, FALSE)
SeqReference ==
  inflight = {} /\ \E k \in AnyKeys, r \in AnyKeys : Reference(k, r, FALSE)
SeqZAdd ==
  inflight = {}
    /\ \E k \in AnyKeys, s \in SetNames, c \in Scores : ZAdd(k, s, c, FALSE)

NextSeq ==
  \/ SeqSet
  \/ SeqSetBatch
  \/ SeqReference
  \/ SeqZAdd
  \/ DoTxnCommit
  \/ DoCallback

SpecSeq == Init /\ [][NextSeq]_vars

\* a row of the backing KV is overwritten behind the engine's back: its
\* value becomes Forged (one row at a time is forged)
Tamper(r) ==
  /\ r \in db
  /\ \A x \in db : x.value # Forged
  /\ db' = (db \ {r}) \cup {[r EXCEPT !.value = Forged]}
  /\ last' = NoReturn
  /\ UNCHANGED <<tree, inflight, wg, nwrites, log, owner, closer, pipe>>

DoTamper == \E r \in db : Tamper(r)

\* one caller, synchronous commit, and somebody who forges a row
NextTamper ==
  \/ SeqSet
  \/ SeqSetBatch
  \/ SeqReference
  \/ SeqZAdd
  \/ DoTxnCommit
  \/ DoCallback
  \/ DoTamper

SpecTamper == Init /\ [][NextTamper]_vars

\* concurrent callers and one call of Close; a closed Store takes no call
OpenSet == closer.pc # "closed" /\ \E a \in BOOLEAN : Set(K1, V1, a)
OpenSetBatch ==
  closer.pc # "closed"
    /\ \E a \in BOOLEAN : SetBatch(<<[key |-> K1, value |-> V1],
                                      [key |-> K2, value |-> V2]>>, a)
OpenZAdd == closer.pc # "closed" /\ \E a \in BOOLEAN : ZAdd(K1, S1, 1, a)

NextClose ==
  \/ OpenSet
  \/ OpenSetBatch
  \/ OpenZAdd
  \/ DoTxnCommit
  \/ DoCallback
  \/ CloseCall
  \/ CloseReturn

SpecClose == Init /\ [][NextClose]_vars

\* the backing store finishes every commit it was handed and invokes every
\* callback, and a caller whose wait is over goes on
SpecCloseFair ==
  /\ SpecClose
  /\ WF_vars(DoTxnCommit)
  /\ WF_vars(DoCallback)
  /\ WF_vars(CloseReturn)

\* concurrent callers and one call of FlushToDisk
NextFlush ==
  \/ OpenSet
  \/ OpenSetBatch
  \/ OpenZAdd
  \/ DoTxnCommit
  \/ DoCallback
  \/ FlushCall
  \/ FlushWait
  \/ FlushLock
  \/ FlushReturn

SpecFlush == Init /\ [][NextFlush]_vars

\* the backing store finishes every commit it was handed and invokes every
\* callback; a caller whose wait is over or whose lock is free goes on
SpecFlushFair ==
  /\ SpecFlush
  /\ WF_vars(DoTxnCommit)
  /\ WF_vars(DoCallback)
  /\ WF_vars(FlushWait)
  /\ WF_vars(FlushLock)
  /\ WF_vars(FlushReturn)

\* one caller fills the Store, then Dump runs and feeds Restore on a fresh
\* Store through kvChan
FillSet ==
  /\ dump.pc = "idle"
  /\ inflight = {}
  /\ \E k \in GoodKeys, v \in Values : Set(k, v, FALSE)

NextDump ==
  \/ FillSet
  \/ DoTxnCommit
  \/ DoCallback
  \/ DumpStart
  \/ DumpSend
  \/ DumpStreamError
  \/ DumpClose
  \/ RestoreStart
  \/ DoRestoreRecv
  \/ RestoreRecvClosed

SpecDump == Init /\ [][NextDump]_vars

\* one caller, asynchronous commit: a call returns at the hand-off of its
\* transaction and the next call starts while commits and callbacks of the
\* calls before it are still to come
AsyncSet == \E k \in GoodKeys : Set(k, V1, TRUE)
AsyncSetBatch == \E l \in GoodLists : SetBatch(l, TRUE)
AsyncReference == Reference(K1, K2, TRUE)
AsyncZAdd == ZAdd(K1, S1, 1, TRUE)

NextAsync ==
  \/ AsyncSet
  \/ AsyncSetBatch
  \/ AsyncReference
  \/ AsyncZAdd
  \/ DoTxnCommit
  \/ DoCallback

SpecAsync == Init /\ [][NextAsync]_vars

(* ---------------------------------------------------------------- claims *)

\* the number of entries of the first n writes of the log
RECURSIVE EntriesUpTo(_)
EntriesUpTo(n) == IF n = 0 THEN 0 ELSE EntriesUpTo(n - 1) + Len(log[n].list)

C5_RoundTrip ==
  \A i \in 1..Len(log) :
    log[i].op = "Set" =>
      ByIndex(db, tree, log[i].idx) =
        [err |-> "nil", key |-> log[i].list[1].key,
         value |-> log[i].list[1].value, index |-> log[i].idx]

\* a Set of a key that was set again later with another value
C5_Witness ==
  \E i \in 1..Len(log), j \in 1..Len(log) :
    /\ i < j
    /\ log[i].op = "Set" /\ log[j].op = "Set"
    /\ log[i].list[1].key = log[j].list[1].key
    /\ log[i].list[1].value # log[j].list[1].value

\* C6: the entries of a successful SetBatch of n entries that returned idx
\* hold the indices idx-n+1 .. idx in list order, and ByIndex of each of
\* them returns that entry.
C6_BatchByIndex ==
  \A i \in 1..Len(log) :
    log[i].op = "SetBatch" =>
      \A j \in 1..Len(log[i].list) :
        ByIndex(db, tree, log[i].idx - Len(log[i].list) + j) =
          [err |-> "nil", key |-> log[i].list[j].key,
           value |-> log[i].list[j].value,
           index |-> log[i].idx - Len(log[i].list) + j]

\* the write e of the log wrote a row under key
WritesRow(e, key) == \E n \in 1..Len(e.list) : e.list[n].key = key

\* the last Set of key k among the first n writes of the log, 0 when none
RECURSIVE LastSet(_, _)
LastSet(k, n) ==
  IF n = 0 THEN 0
  ELSE IF log[n].op = "Set" /\ log[n].key = k THEN n ELSE LastSet(k, n - 1)

\* C7: after Set(k, v) and a successful Reference(k, alias), Get(alias)
\* returns key k with the value and the index of the latest Set of k, never
\* the reference row itself.  The alias is one whose row is still that
\* reference, and k a key written by Set alone; no call is running.
C7_ReferenceResolution ==
  \A i \in 1..Len(log) :
    ( /\ inflight = {}
      /\ log[i].op = "Reference"
      /\ \A j \in (i + 1)..Len(log) : ~WritesRow(log[j], log[i].list[1].key)
      /\ LastSet(log[i].key, Len(log)) # 0
      /\ \A j \in 1..Len(log) :
           (j # i /\ WritesRow(log[j], log[i].key)) => log[j].op = "Set" )
    => Get(db, log[i].list[1].key) =
         [err |-> "nil", key |-> log[i].key,
          value |-> log[LastSet(log[i].key, Len(log))].list[1].value,
          index |-> log[LastSet(log[i].key, Len(log))].idx]

\* the Sets of key k among the first n writes of the log, newest first, as
\* the entries History returns
RECURSIVE SetsNewestFirst(_, _)
SetsNewestFirst(k, n) ==
  IF n = 0 THEN <<>>
  ELSE (IF log[n].op = "Set" /\ log[n].key = k
        THEN <<[key |-> k, value |-> log[n].list[1].value, index |-> log[n].idx]>>
        ELSE <<>>) \o SetsNewestFirst(k, n - 1)

\* C10: after n successful Sets of k, interleaved with writes to other keys
\* and with Reference / ZAdd calls that point at k, History(k) returns the
\* n entries of those Sets, newest first, with the indices they returned
\* (no call is running).
C10_History ==
  \A k \in GoodKeys :
    ( /\ inflight = {}
      /\ \A i \in 1..Len(log) :
           WritesRow(log[i], k) =>
             \/ log[i].op = "Set"
             \/ log[i].op \in {"Reference", "ZAdd"} /\ log[i].key = k )
    => History(db, k) = [err |-> "nil", items |-> SetsNewestFirst(k, Len(log))]

\* what a rejected call leaves alone
Untouched == UNCHANGED <<db, tree, inflight, wg, nwrites, log, owner>>

\* C8: a Reference or ZAdd whose key has no committed row returns
\* KeyNotFound (or the error of its other argument), writes no row and
\* reserves no tree position, so the next write gets the index it would
\* have got without that call; and no reference to a key without a row is
\* ever handed to the backing store.
C8_MissingReferent ==
  /\ [][ /\ ( /\ last'.op \in {"Reference", "ZAdd"}
              /\ checkKey(last'.key) = "nil"
              /\ Versions(db, last'.key) = {} )
            => ( /\ last'.err \in {"ErrKeyNotFound", "ErrInvalidReference",
                                   "ErrInvalidSet"}
                 /\ Untouched )
         /\ last'.err = "ErrKeyNotFound"
            => (Versions(db, last'.key) = {} /\ Untouched) ]_vars
  /\ [](\A wr \in inflight :
          wr.op \in {"Reference", "ZAdd"} => Versions(db, wr.key) # {})

\* a Reference of a missing key was rejected on an engine that holds rows
C8_Witness ==
  /\ last.op = "Reference" /\ last.err = "ErrKeyNotFound"
  /\ Len(log) >= 1
  /\ tree.w = EntriesUpTo(Len(log)) + 1

BadKey(key) == Len(key) = 0 \/ key[1] = tsPrefix

\* C9: a Set, Reference or ZAdd with an empty or reserved-prefix key or
\* alias, a SetBatch of no entries and a SetBatch with such a key at any
\* place of its list return an error and change nothing: no row, no tree
\* position, the same width and next index.  No row, leaf or staged entry
\* ever has a key that begins with tsPrefix or is empty.
C9_ValidationNoEffect ==
  /\ [][ /\ last'.err \in {"ErrInvalidKey", "ErrInvalidReference",
                           "ErrInvalidSet", "ErrEmptySet"} => Untouched
         /\ (last'.op \in {"Set", "Reference", "ZAdd"} /\ BadKey(last'.key))
              => last'.err = "ErrInvalidKey" ]_vars
  /\ [](/\ \A r \in db : ~BadKey(r.key)
        /\ \A n \in 1..Len(tree.rcache) : ~BadKey(tree.rcache[n].key)
        /\ \A wr \in inflight :
             /\ wr.list # <<>>
             /\ \A e \in wr.staged : ~BadKey(e.key))

\* a SetBatch with an invalid key was rejected on an engine that holds rows
C9_Witness ==
  /\ last.op = "SetBatch" /\ last.err = "ErrInvalidKey"
  /\ db # {}
  /\ tree.ts = 1 /\ tree.w = 2

\* C2: a leaf is counted in the width only when the commit of the write
\* that reserved it has succeeded, and, once the cb of that write has run,
\* whenever it has; after a failed commit and its Discard the width is what
\* it was.
C2_CommitAtomicity ==
  /\ \A i \in 1..Width(tree) : i <= Len(owner) /\ owner[i].st = "ok"
  /\ \A i \in 1..Len(owner) :
       (owner[i].id = 0 /\ owner[i].st = "ok") => i <= Width(tree)

\* C3: no two writes whose commit succeeded have the same index.
C3_UniqueIndex ==
  \A i \in 1..Len(log), j \in 1..Len(log) : i # j => log[i].idx # log[j].idx

\* C4: when CurrentRoot returns index i, ByIndex(j) succeeds for every j in
\* 0..i and returns the entry of index j.
C4_RootReadable ==
  ~CurrentRoot(db, tree).empty =>
    \A j \in 0..CurrentRoot(db, tree).index :
      /\ ByIndex(db, tree, j).err = "nil"
      /\ ByIndex(db, tree, j).index = j

\* the leaf hashes recomputed from what ByIndex returns for 0 .. n - 1
ObservedLeaves(n) ==
  [i \in 1..n |-> Digest(i - 1, ByIndex(db, tree, i - 1).key,
                         ByIndex(db, tree, i - 1).value)]

\* C11: with no write in flight and N entries committed (the entries of the
\* writes whose commit succeeded; failed writes add none), CurrentRoot
\* returns index N - 1 and the Merkle root over Digest(i, k_i, v_i),
\* i = 0 .. N - 1, where (k_i, v_i) is what ByIndex(i) returns; with N = 0
\* it returns the zero value.
C11_RootConsistency ==
  inflight = {} =>
    LET N == EntriesUpTo(Len(log))
    IN IF N = 0
       THEN CurrentRoot(db, tree) = [index |-> 0, empty |-> TRUE, hash |-> ZeroHash]
       ELSE /\ CurrentRoot(db, tree).index = N - 1
            /\ \A i \in 0..(N - 1) : ByIndex(db, tree, i).err = "nil"
            /\ CurrentRoot(db, tree).hash = MTH(ObservedLeaves(N))

\* C12: ByIndex(i) fails with IndexNotFound for every i >= width, in every
\* state: with position i reserved by a write whose cb has not run, and
\* after the write that reserved i was discarded.
C12_IndexNotFound ==
  \A i \in Width(tree)..MaxTs : ByIndex(db, tree, i).err = "ErrIndexNotFound"

\* C19: the width, and so the index CurrentRoot returns, never decreases
\* from one state to the next.
C19_WidthMonotonic == [][Width(tree') >= Width(tree)]_vars

\* C14: a sequence of calls made with asynchronous commit, once the
\* wait-group has drained, leaves the tree as the same sequence made with
\* synchronous commit does.  When every commit succeeded the synchronous
\* run has committed every reserved position: the width is the number of
\* entries and the root is the root over all their leaves.
C14_AsyncSyncEquivalence ==
  (wg = 0 /\ inflight = {} /\ nwrites > 0 /\ Len(log) = nwrites) =>
    /\ Width(tree) = EntriesUpTo(Len(log))
    /\ Width(tree) = tree.w - 1
    /\ CurrentRoot(db, tree).hash =
         MTH([i \in 1..Len(tree.rcache) |-> tree.rcache[i].h])

\* the row the write of index i committed is in the backing KV with a
\* value that is not the one the leaf of i was built from
Altered(i) ==
  \E row \in db :
    /\ row.key = tree.rcache[i + 1].key
    /\ row.version = i + 1
    /\ Digest(i, row.key, row.value) # tree.rcache[i + 1].h

\* C13: when the row of the entry committed at index i was changed behind
\* the engine's back, ByIndex(i) fails with InconsistentDigest; ByIndex
\* never returns a value the leaf of its index was not built from; and the
\* entries of the Sets whose rows were left alone are still returned.
C13_TamperDetection ==
  /\ \A i \in 0..(Width(tree) - 1) :
       /\ Altered(i) => ByIndex(db, tree, i).err = "ErrInconsistentDigest"
       /\ ByIndex(db, tree, i).err = "nil" =>
            /\ ByIndex(db, tree, i).value # Forged
            /\ Digest(i, ByIndex(db, tree, i).key, ByIndex(db, tree, i).value)
                 = tree.rcache[i + 1].h
  /\ \A n \in 1..Len(log) :
       (log[n].op = "Set" /\ ~Altered(log[n].idx)) =>
         ByIndex(db, tree, log[n].idx) =
           [err |-> "nil", key |-> log[n].list[1].key,
            value |-> log[n].list[1].value, index |-> log[n].idx]

\* the row of index 0 is forged and ByIndex(0) fails; a Set made with the
\* forged row in place has just returned index 1 and ByIndex(1) returns it
C13_Witness ==
  /\ Width(tree) = 2
  /\ Altered(0)
  /\ ByIndex(db, tree, 0).err = "ErrInconsistentDigest"
  /\ last.op = "Set" /\ last.err = "nil" /\ last.idx = 1
  /\ ByIndex(db, tree, 1).err = "nil"

\* the asynchronous writes in flight
AsyncInflight == {wr \in inflight : wr.async}

\* C15: the wait-group counts the asynchronous writes whose cb has not
\* finished (one Add before the hand-off, one Done at the end of cb, never
\* below zero); a cb runs tree.Commit for its handles when the commit
\* succeeded and tree.Discard when it failed, then its Done; Close closes
\* the tree and the backing KV only when the cb of every asynchronous
\* write started before Close has finished; and when every cb is
\* eventually invoked, a Close that was called returns.
C15_CloseDrains ==
  /\ [](wg = Cardinality(AsyncInflight) /\ wg >= 0)
  /\ [][\A wr \in {x \in inflight : \A y \in inflight' : y.id # x.id} :
          /\ tree' = IF wr.st = "ok" THEN CommitAll(tree, wr.hs)
                     ELSE DiscardAll(tree, wr.hs)
          /\ wg' = IF wr.async THEN wg - 1 ELSE wg]_vars
  /\ [][\A wr \in {x \in inflight' : \A y \in inflight : y.id # x.id} :
          wg' = IF wr.async THEN wg + 1 ELSE wg]_vars
  /\ [](closer.pc = "closed" => \A wr \in AsyncInflight : ~wr.early)
  /\ (closer.pc = "waiting") ~> (closer.pc = "closed")

\* Close found two asynchronous writes pending and has returned
C15_Witness ==
  /\ closer.pc = "closed"
  /\ closer.seen = 2
  /\ wg = 0
  /\ Len(log) >= 1

\* the fresh Store answers as the Store that was dumped
SameAnswers ==
  /\ CurrentRoot(dst.db, dst.tree) = CurrentRoot(db, tree)
  /\ \A k \in GoodKeys :
       /\ Get(dst.db, k) = Get(db, k)
       /\ Count(dst.db, k) = Count(db, k)
  /\ \A i \in 0..MaxTs : ByIndex(dst.db, dst.tree, i) = ByIndex(db, tree, i)

\* C16: Dump piped into Restore on a fresh Store, with no error of the
\* stream or of the loader and whatever the number of entries and of
\* KVLists, ends with Restore returned and the fresh Store giving the same
\* CurrentRoot, Count, ByIndex and Get as the Store that was dumped.
C16_DumpRestoreRoundTrip ==
  /\ restore.pc # "panic"
  /\ (restore.pc = "returned" /\ restore.err = "nil" /\ dump.err = "nil")
       => SameAnswers

\* the rows of the KVLists sent so far
RECURSIVE RowsSent(_)
RowsSent(n) == IF n = 0 THEN {} ELSE RowsSent(n - 1) \cup dump.lists[n]

\* C17: Restore returns only when the channel is closed and drained, with
\* every entry of every KVList sent loaded, the loader finished once and
\* the tree state loaded from the rows, and returns the recovered ts; a
\* channel closed with no KVList makes it return normally.
C17_RestoreDrains ==
  /\ restore.pc # "panic"
  /\ (restore.pc = "returned" /\ restore.err = "nil") =>
       /\ kvChan.closes # <<>>
       /\ kvChan.buf = <<>>
       /\ dst.db = RowsSent(dump.next - 1)
       /\ restore.finished = 1
       /\ dst.tree = loadTreeState(dst.db)
       /\ restore.ret = dst.tree.ts

\* C18: Dump flushes the tree, pushes every KVList of the stream and then
\* closes the channel; with all caches empty it sends nothing; whenever
\* Dump has returned, the channel was closed once, by Dump.
C18_DumpClosesChannel ==
  /\ dump.pc # "idle" => db = flush(db, tree)
  /\ (dump.pc # "idle" /\ Len(tree.rcache) = 0) => dump.lists = <<>>
  /\ (dump.pc = "returned" /\ dump.err = "nil") =>
       dump.next > Len(dump.lists)
  /\ dump.pc = "returned" => kvChan.closes = <<"Dump">>

\* C20: the channel is never closed twice and nothing is sent on it after
\* it was closed.
C20_ChannelDiscipline ==
  /\ kvChan.fault = "none"
  /\ Len(kvChan.closes) <= 1

\* C21: FlushToDisk takes the write lock of the tree only after its wait
\* on the wait-group is over, never holds the lock while it waits, and has
\* released it when it returns; so with asynchronous writes pending, whose
\* callbacks need that lock, a FlushToDisk that was called returns once
\* the callbacks have run, and every pending callback does run.
C21_FlushNoDeadlock ==
  /\ [](flusher.pc \in {"idle", "waiting", "locking", "returned"}
          => treeLock # "FlushToDisk")
  /\ [](flusher.pc = "flushing" => treeLock = "FlushToDisk")
  /\ [][(treeLock # "FlushToDisk" /\ treeLock' = "FlushToDisk")
          => flusher.pc = "locking"]_vars
  /\ [][(flusher.pc = "waiting" /\ flusher'.pc # "waiting") => wg = 0]_vars
  /\ (flusher.pc = "waiting") ~> (flusher.pc = "returned")
  /\ \A id \in 1..(MaxInflight + 1) :
       (\E wr \in inflight : wr.id = id /\ wr.async /\ flusher.pc # "idle")
         ~> (\A wr \in inflight : wr.id # id)

\* FlushToDisk found two asynchronous writes pending and has returned with
\* the tree flushed
C21_Witness ==
  /\ flusher.pc = "returned"
  /\ flusher.seen = 2
  /\ treeLock = "free"
  /\ LeafRows(db) # {}

====
